---- MODULE Spec2Model ----
(***************************************************************************)
(* Model of src/src/scopes.rs (imnodes-rs): the scope tokens ScopeNone,    *)
(* ScopeEditor, ScopeNode and the region-entry functions that bracket a    *)
(* caller-supplied block between a begin and an end primitive of the       *)
(* underlying node-editor subsystem.                                       *)
(*                                                                         *)
(* A region-entry function runs caller code in the middle, so each one is  *)
(* two steps: the part before `f(...)` and the part after it.  The caller  *)
(* program is the environment: at every point it may call any public       *)
(* operation for which it can name a token, move the token it was handed   *)
(* out of its block, or fail (panic), the panic being caught at any        *)
(* enclosing level.                                                        *)
(***************************************************************************)
EXTENDS Integers, Sequences, FiniteSets, TLC

VARIABLES
    stack,    \* in-flight region-entry calls, outermost first (the Rust call stack)
    open,     \* the subsystem's open regions, outermost first (begin pushes, end pops)
    cur,      \* the process-wide current editor context slot
    saved,    \* tokens the caller holds outside the block they were handed to
    sel,      \* the subsystem's selection: [nodes |-> Seq(id), links |-> Seq(id)]
    sub,      \* the subsystem's frame state: declared pins and what its queries report
    last      \* the most recent public operation: primitives called, token used, result

vars == <<stack, open, cur, saved, sel, sub, last>>

----------------------------------------------------------------------------
\* Bounds of the model.

MaxOpen == 3       \* most regions open in the subsystem at once
MaxSaved == 1      \* most Editor and Node tokens the caller keeps outside their blocks

MaxSelected == 2   \* most nodes, and most links, selected at once

Contexts == {"ctxA", "ctxB"}
NodeIds == 1..MaxSelected
LinkIds == 1..MaxSelected
PinIds == {1, 2}
PinShapes == {"Circle", "CircleFilled"}

\* the context and the shape used where contexts and shapes play no part
OneContext == {"ctxA"}
OneShape == {"Circle"}

\* the ids used by the programs of Spec, where ids play no part
FewNodeIds == {1}
FewPinIds == {1}
FewLinkIds == {1}
Kinds == {"editor", "node", "titlebar", "input", "output", "attribute"}

----------------------------------------------------------------------------
\* Helpers.

Top(s) == s[Len(s)]
Pop(s) == SubSeq(s, 1, Len(s) - 1)

RECURSIVE Perms(_)
\* every sequence without repetition over the set S, in any order and length
Perms(S) ==
    {<<>>} \cup UNION {{<<x>> \o p : p \in Perms(S \ {x})} : x \in S}

Selections == [nodes : Perms(NodeIds), links : Perms(LinkIds)]


----------------------------------------------------------------------------
\* Scope tokens.  A token carries no data; the model tags it with where it
\* comes from: from > 0 is the position, in the subsystem's stack of open
\* regions, of the region whose entry function created it; from = -1 says
\* that region has been closed since; from = 0 says the token was built by a
\* struct literal, not by an entry function.

ScopeNone(from) == [scope |-> "None", from |-> from]
ScopeEditor(from) == [scope |-> "Editor", from |-> from]
ScopeNode(from) == [scope |-> "Node", from |-> from]
NoToken == [scope |-> "none", from |-> 0]

\* `pub struct ScopeX {}` has no private field, so any code may write the
\* struct expression `ScopeX {}`.
StructLiteral(scope) == [scope |-> scope, from |-> 0]

\* the token a region-entry function hands to its block
BlockToken(kind, pos) ==
    IF kind = "editor" THEN ScopeEditor(pos)
    ELSE IF kind = "node" THEN ScopeNode(pos)
    ELSE NoToken

\* Tokens the running code can name: the token of every enclosing block that
\* still owns it (an inner closure borrows it), the tokens kept in outer
\* variables, and a struct literal.
Usable(scope) ==
    {BlockToken(stack[i].fn, stack[i].pos) :
        i \in {j \in 1..Len(stack) : stack[j].tok = "held"
                                     /\ BlockToken(stack[j].fn, stack[j].pos).scope = scope}}
    \cup {t \in saved : t.scope = scope}
    \cup {StructLiteral(scope)}

\* the tokens created by the region at position pos, once that region closed
Expire(tokens, pos) ==
    {IF t.from = pos THEN [t EXCEPT !.from = -1] ELSE t : t \in tokens}

----------------------------------------------------------------------------
\* Identifiers: thin typed wrappers around the caller's integer.

NodeId(n) == [ty |-> "NodeId", id |-> n]
LinkId(n) == [ty |-> "LinkId", id |-> n]
AttributeId(n) == [ty |-> "AttributeId", id |-> n]
InputPinId(n) == [ty |-> "InputPinId", id |-> n]
OutputPinId(n) == [ty |-> "OutputPinId", id |-> n]
PinId(n) == [ty |-> "PinId", id |-> n]

\* `id.into()`: the wrapped integer
Into(id) == id.id

\* `shape as i32`: the discriminant of the PinShape variant
ShapeAsI32(shape) == IF shape = "Circle" THEN 0 ELSE 1

----------------------------------------------------------------------------
\* The subsystem's primitives (external collaborator), as far as the region
\* stack, the context slot, the selection and the frame state go.

\* what a query primitive answers: the flag it returns and the values it
\* writes through its out-pointers (<<>>: it writes nothing)
NoAnswer == [found |-> FALSE, out |-> <<>>]
NoLinkCreated == [found |-> FALSE, out |-> <<>>, snap |-> FALSE]

\* a pin id the frame has not declared
NoPin == [node |-> 0, dir |-> "none"]

\* the frame state before the first frame: no node begun, no pin declared,
\* nothing hovered, active, started, dropped, destroyed or created
NoFrame ==
    [node |-> 0, pins |-> [p \in PinIds |-> NoPin], one |-> NoAnswer,
     created |-> NoLinkCreated]

\* the value of an out-parameter after the call of a primitive
OutParam(init, out) == IF out = <<>> THEN init ELSE out

\* the effect of a begin primitive on the frame state: BeginNodeEditor starts
\* a frame (no link created in it yet), BeginNode makes its node the current
\* one, BeginInputAttribute / BeginOutputAttribute declare an input / output
\* pin of the current node
BeginFrameState(state, kind, args) ==
    CASE kind = "editor" -> [state EXCEPT !.created = NoLinkCreated]
      [] kind = "node" -> [state EXCEPT !.node = args[1]]
      [] kind = "input" ->
            [state EXCEPT !.pins[args[1]] = [node |-> state.node, dir |-> "in"]]
      [] kind = "output" ->
            [state EXCEPT !.pins[args[1]] = [node |-> state.node, dir |-> "out"]]
      [] OTHER -> state

BeginPrim(kind) ==
    CASE kind = "editor" -> "BeginNodeEditor"
      [] kind = "node" -> "BeginNode"
      [] kind = "titlebar" -> "BeginNodeTitleBar"
      [] kind = "input" -> "BeginInputAttribute"
      [] kind = "output" -> "BeginOutputAttribute"
      [] kind = "attribute" -> "BeginStaticAttribute"

EndPrim(kind) ==
    CASE kind = "editor" -> "EndNodeEditor"
      [] kind = "node" -> "EndNode"
      [] kind = "titlebar" -> "EndNodeTitleBar"
      [] kind = "input" -> "EndInputAttribute"
      [] kind = "output" -> "EndOutputAttribute"
      [] kind = "attribute" -> "EndStaticAttribute"

\* a begin primitive opens a region on top of the open ones
BeginRegion(regions, kind) == Append(regions, kind)

\* an end primitive closes the most recently opened region still open
ClosedRegion(regions) == IF regions = <<>> THEN "none" ELSE Top(regions)
EndRegion(regions) == IF regions = <<>> THEN <<>> ELSE Pop(regions)

\* EditorContext::set_as_current_editor: the slot now holds ctx
set_as_current_editor(ctx) == ctx

\* imnodes_NumSelectedNodes / imnodes_NumSelectedLinks
NumSelected(s) == Len(s)

\* imnodes_GetSelectedNodes / imnodes_GetSelectedLinks: writes the selected
\* ids into the caller's buffer, one per selected element
GetSelected(s, buffer) ==
    [i \in 1..Len(buffer) |-> IF i <= Len(s) THEN s[i] ELSE buffer[i]]

----------------------------------------------------------------------------
\* The record of the most recent public operation:
\*   op, ev   the operation and which part of it ran ("begin": up to the call
\*            of the block, "end": after the block, "call": all of it,
\*            "panic": it failed)
\*   kind     the kind of region it brackets
\*   tok      the token it was called on
\*   prims    the primitives it called, in order
\*   closed   the kind of region its end primitive closed
\*   own      whether that region is the one this very call opened
\*   ret      the token it returned
\*   val      the value it returned
\*   given    the arguments the caller passed
\*   args     the arguments it passed to its (last) primitive
\*   buf      the length of the buffer it passed to the retrieval primitive

NoLast ==
    [op |-> "none", ev |-> "none", kind |-> "none", tok |-> NoToken,
     prims |-> <<>>, closed |-> "none", own |-> FALSE, ret |-> NoToken, val |-> <<>>,
     given |-> <<>>, args |-> <<>>, buf |-> 0]

\* A panic unwinds the call stack down to the frame whose block catches it
\* (depth 0: nothing in flight catches it).  No frame it crosses runs the
\* statements after `f(...)`.
Unwind(frames, depth) == SubSeq(frames, 1, depth)

----------------------------------------------------------------------------
Init ==
    /\ stack = <<>>
    /\ open = <<>>
    /\ cur = "none"
    /\ saved = {}
    /\ sel = [nodes |-> <<>>, links |-> <<>>]
    /\ sub = NoFrame
    /\ last = NoLast

\* The part of a region-entry function up to and including the call of its
\* block: the begin primitive, then `f(token)`.
Enter(op, kind, tok, ctx, given, args) ==
    /\ Len(open) < MaxOpen
    /\ open' = BeginRegion(open, kind)
    /\ sub' = BeginFrameState(sub, kind, args)
    /\ stack' = Append(stack, [fn |-> kind, pos |-> Len(open) + 1, ctx |-> ctx,
                               tok |-> IF BlockToken(kind, 0) = NoToken
                                       THEN "none" ELSE "held"])
    /\ last' = [NoLast EXCEPT !.op = op, !.ev = "begin", !.kind = kind, !.tok = tok,
                              !.prims = <<BeginPrim(kind)>>,
                              !.given = given, !.args = args]

\* The part of a region-entry function after its block returned: the end
\* primitive, then the return.
Leave(op, kind, ret) ==
    /\ stack # <<>>
    /\ Top(stack).fn = kind
    /\ open' = EndRegion(open)
    /\ stack' = Pop(stack)
    /\ last' = [NoLast EXCEPT !.op = op, !.ev = "end", !.kind = kind,
                              !.prims = <<EndPrim(kind)>>,
                              !.closed = ClosedRegion(open),
                              !.own = (Top(stack).pos = Len(open)),
                              !.ret = ret]

\* editor(context, f), lines 22-25
editor_begin(ctx) ==
    /\ cur' = set_as_current_editor(ctx)
    /\ Enter("editor", "editor", NoToken, ctx, <<>>, <<>>)
    /\ UNCHANGED <<saved, sel>>

\* editor(context, f), lines 26-27
editor_end ==
    /\ Leave("editor", "editor", ScopeNone(-1))
    /\ saved' = Expire(saved, Len(open)) \cup {ScopeNone(-1)}
    /\ UNCHANGED <<cur, sel, sub>>

\* ScopeEditor::node(&self, id, f), lines 205-207
node_begin(self, id) ==
    /\ self \in Usable("Editor")
    /\ Enter("node", "node", self, "none", <<id>>, <<Into(id)>>)
    /\ UNCHANGED <<cur, saved, sel>>

\* ScopeEditor::node, line 208
node_end ==
    /\ Leave("node", "node", NoToken)
    /\ saved' = Expire(saved, Len(open))
    /\ UNCHANGED <<cur, sel, sub>>

\* ScopeNode::add_titlebar(&self, f), lines 241-242
add_titlebar_begin(self) ==
    /\ self \in Usable("Node")
    /\ Enter("add_titlebar", "titlebar", self, "none", <<>>, <<>>)
    /\ UNCHANGED <<cur, saved, sel>>

\* ScopeNode::add_titlebar, line 243
add_titlebar_end ==
    /\ Leave("add_titlebar", "titlebar", NoToken)
    /\ saved' = Expire(saved, Len(open))
    /\ UNCHANGED <<cur, sel, sub>>

\* ScopeNode::add_input(&self, id, shape, f), lines 250-251
add_input_begin(self, id, shape) ==
    /\ self \in Usable("Node")
    /\ Enter("add_input", "input", self, "none", <<id, shape>>,
             <<Into(id), ShapeAsI32(shape)>>)
    /\ UNCHANGED <<cur, saved, sel>>

\* ScopeNode::add_input, line 252
add_input_end ==
    /\ Leave("add_input", "input", NoToken)
    /\ saved' = Expire(saved, Len(open))
    /\ UNCHANGED <<cur, sel, sub>>

\* ScopeNode::add_output(&self, id, shape, f), lines 259-260
add_output_begin(self, id, shape) ==
    /\ self \in Usable("Node")
    /\ Enter("add_output", "output", self, "none", <<id, shape>>,
             <<Into(id), ShapeAsI32(shape)>>)
    /\ UNCHANGED <<cur, saved, sel>>

\* ScopeNode::add_output, line 261
add_output_end ==
    /\ Leave("add_output", "output", NoToken)
    /\ saved' = Expire(saved, Len(open))
    /\ UNCHANGED <<cur, sel, sub>>

\* ScopeNode::attribute(&self, id, f), lines 268-269
attribute_begin(self, id) ==
    /\ self \in Usable("Node")
    /\ Enter("attribute", "attribute", self, "none", <<id>>, <<Into(id)>>)
    /\ UNCHANGED <<cur, saved, sel>>

\* ScopeNode::attribute, line 270
attribute_end ==
    /\ Leave("attribute", "attribute", NoToken)
    /\ saved' = Expire(saved, Len(open))
    /\ UNCHANGED <<cur, sel, sub>>

\* add_link taken for a link the user created
add_link_reported(self, id, input, output) ==
    /\ self \in Usable("Editor")
    /\ sub' = [sub EXCEPT !.created =
                   [found |-> TRUE, out |-> <<0, Into(output), 0, Into(input)>>,
                    snap |-> FALSE]]
    /\ last' = [NoLast EXCEPT !.op = "add_link", !.ev = "call", !.tok = self,
                              !.prims = <<"Link">>,
                              !.given = <<id, input, output>>,
                              !.args = <<Into(id), Into(input), Into(output)>>]
    /\ UNCHANGED <<stack, open, cur, saved, sel>>

\* ScopeEditor::add_link(&self, id, input, output)
add_link(self, id, input, output) ==
    /\ self \in Usable("Editor")
    /\ last' = [NoLast EXCEPT !.op = "add_link", !.ev = "call", !.tok = self,
                              !.prims = <<"Link">>,
                              !.given = <<id, input, output>>,
                              !.args = <<Into(id), Into(input), Into(output)>>]
    /\ UNCHANGED <<stack, open, cur, saved, sel, sub>>

\* ScopeEditor::is_hovered(&self)
editor_is_hovered(self) ==
    /\ self \in Usable("Editor")
    /\ last' = [NoLast EXCEPT !.op = "is_hovered", !.ev = "call", !.tok = self,
                              !.prims = <<"IsEditorHovered">>]
    /\ UNCHANGED <<stack, open, cur, saved, sel, sub>>

\* The block of the innermost in-flight call moves the token it was handed
\* into a variable of an enclosing scope (the token is passed by value and
\* the closure type carries no 'static or lifetime bound).
move_token ==
    /\ stack # <<>>
    /\ Top(stack).tok = "held"
    /\ Cardinality({t \in saved : t.scope # "None"}) < MaxSaved
    /\ saved' = saved \cup {BlockToken(Top(stack).fn, Top(stack).pos)}
    /\ stack' = [stack EXCEPT ![Len(stack)].tok = "moved"]
    /\ UNCHANGED <<open, cur, sel, sub, last>>

\* The block of the innermost in-flight call panics; the panic is caught by
\* the block at the given depth (0: by code outside every region-entry call).
block_panics(depth) ==
    /\ stack # <<>>
    /\ depth \in 0..(Len(stack) - 1)
    /\ stack' = Unwind(stack, depth)
    /\ last' = [NoLast EXCEPT !.op = "block", !.ev = "panic"]
    /\ UNCHANGED <<open, cur, saved, sel, sub>>

Next ==
    \/ \E ctx \in Contexts : editor_begin(ctx)
    \/ editor_end
    \/ \E t \in Usable("Editor"), n \in FewNodeIds : node_begin(t, NodeId(n))
    \/ node_end
    \/ \E t \in Usable("Node") : add_titlebar_begin(t)
    \/ add_titlebar_end
    \/ \E t \in Usable("Node"), p \in FewPinIds, shape \in PinShapes :
          add_input_begin(t, InputPinId(p), shape)
    \/ add_input_end
    \/ \E t \in Usable("Node"), p \in FewPinIds, shape \in PinShapes :
          add_output_begin(t, OutputPinId(p), shape)
    \/ add_output_end
    \/ \E t \in Usable("Node"), a \in FewPinIds : attribute_begin(t, AttributeId(a))
    \/ attribute_end
    \/ \E t \in Usable("Editor"), l \in FewLinkIds, a \in FewPinIds, b \in FewPinIds :
          add_link(t, LinkId(l), InputPinId(a), OutputPinId(b))
    \/ \E t \in Usable("Editor") : editor_is_hovered(t)
    \/ move_token
    \/ \E d \in 0..MaxOpen : block_panics(d)

Spec == Init /\ [][Next]_vars


----------------------------------------------------------------------------
\* The selection queries of ScopeNone.  Each *_ret operator is the body of the
\* method as a function of the subsystem's selection: the primitives it
\* calls, whether it returns (ok) or panics, and the value it returns.

\* `num as u32` and `... as usize`: both casts are reached only past
\* `assert!(num > 0)`, and a positive i32 keeps its value in u32 and usize
AsU32(num) == num

\* ScopeNone::num_selected_nodes(&self)
num_selected_nodes_ret(selection) ==
    LET num == NumSelected(selection.nodes)
    IN  IF num > 0
        THEN [ok |-> TRUE, prims |-> <<"NumSelectedNodes">>, val |-> <<AsU32(num)>>]
        ELSE [ok |-> FALSE, prims |-> <<"NumSelectedNodes">>, val |-> <<>>]

\* ScopeNone::num_selected_links(&self)
num_selected_links_ret(selection) ==
    LET num == NumSelected(selection.links)
    IN  IF num > 0
        THEN [ok |-> TRUE, prims |-> <<"NumSelectedLinks">>, val |-> <<AsU32(num)>>]
        ELSE [ok |-> FALSE, prims |-> <<"NumSelectedLinks">>, val |-> <<>>]

\* selected_nodes without the count check of num_selected_nodes: a selection
\* of zero nodes yields an empty sequence
selected_nodes_unchecked(selection) ==
    LET nodes == [i \in 1..NumSelected(selection.nodes) |-> 0]
    IN  [ok |-> TRUE, prims |-> <<"NumSelectedNodes", "GetSelectedNodes">>,
         val |-> GetSelected(selection.nodes, nodes), buf |-> Len(nodes)]

\* ScopeNone::selected_nodes(&self)
selected_nodes_ret(selection) ==
    LET nr == num_selected_nodes_ret(selection)
    IN  IF ~nr.ok
        THEN nr
        ELSE LET nodes == [i \in 1..nr.val[1] |-> 0]
             IN  [ok |-> TRUE, prims |-> nr.prims \o <<"GetSelectedNodes">>,
                  val |-> GetSelected(selection.nodes, nodes), buf |-> Len(nodes)]

\* selected_links with a buffer of one element, whatever the count
selected_links_one(selection) ==
    LET nr == num_selected_links_ret(selection)
    IN  IF ~nr.ok
        THEN nr
        ELSE LET links == <<0>>
             IN  [ok |-> TRUE, prims |-> nr.prims \o <<"GetSelectedLinks">>,
                  val |-> GetSelected(selection.links, links), buf |-> Len(links)]

\* ScopeNone::selected_links(&self)
selected_links_ret(selection) ==
    LET nr == num_selected_links_ret(selection)
    IN  IF ~nr.ok
        THEN nr
        ELSE LET links == [i \in 1..nr.val[1] |-> 0]
             IN  [ok |-> TRUE, prims |-> nr.prims \o <<"GetSelectedLinks">>,
                  val |-> GetSelected(selection.links, links), buf |-> Len(links)]

\* A query of ScopeNone called on the token self with the arguments given:
\* it returns, or its panic unwinds to the block that catches it.
QueryWith(op, self, given, r, depth) ==
    /\ self \in Usable("None")
    /\ depth \in 0..Len(stack)
    /\ r.ok => depth = Len(stack)
    /\ stack' = IF r.ok THEN stack ELSE Unwind(stack, depth)
    /\ last' = [NoLast EXCEPT !.op = op, !.ev = IF r.ok THEN "call" ELSE "panic",
                              !.tok = self, !.prims = r.prims, !.val = r.val,
                              !.given = given,
                              !.buf = IF "buf" \in DOMAIN r THEN r.buf ELSE 0]
    /\ UNCHANGED <<open, cur, saved, sel, sub>>

Query(op, self, r, depth) == QueryWith(op, self, <<>>, r, depth)

num_selected_nodes(self, depth) ==
    Query("num_selected_nodes", self, num_selected_nodes_ret(sel), depth)

num_selected_links(self, depth) ==
    Query("num_selected_links", self, num_selected_links_ret(sel), depth)

selected_nodes(self, depth) ==
    Query("selected_nodes", self, selected_nodes_ret(sel), depth)

selected_links(self, depth) ==
    Query("selected_links", self, selected_links_ret(sel), depth)

\* The subsystem settles a new selection from the user's input.
subsystem_selects(selection) ==
    /\ stack = <<>>
    /\ sel' = selection
    /\ last' = [NoLast EXCEPT !.op = "frame"]
    /\ UNCHANGED <<stack, open, cur, saved, sub>>

\* The values of a Link
Link(start_node, end_node, start_pin, end_pin, craeated_from_snap) ==
    [start_node |-> start_node, end_node |-> end_node, start_pin |-> start_pin,
     end_pin |-> end_pin, craeated_from_snap |-> craeated_from_snap]

\* links_created with the two ends of the link exchanged
links_created_swapped(state) ==
    LET ids == OutParam(<<-1, -1, -1, -1>>, state.created.out)
    IN  [ok |-> TRUE, prims |-> <<"IsLinkCreated">>,
         val |-> IF state.created.found
                 THEN <<Link(NodeId(ids[3]), NodeId(ids[1]), OutputPinId(ids[4]),
                             InputPinId(ids[2]), state.created.snap)>>
                 ELSE <<>>]

\* ScopeNone::links_created(&self): the four ids start at -1 and the snap
\* flag at true; IsLinkCreated writes, in this order, started_at_node_id,
\* started_at_attribute_id, ended_at_node_id, ended_at_attribute_id
links_created_ret(state) ==
    LET ids == OutParam(<<-1, -1, -1, -1>>, state.created.out)
        created_from_snap == IF state.created.out = <<>> THEN TRUE
                             ELSE state.created.snap
        is_created == state.created.found
    IN  [ok |-> TRUE, prims |-> <<"IsLinkCreated">>,
         val |-> IF is_created
                 THEN <<Link(NodeId(ids[1]), NodeId(ids[3]), OutputPinId(ids[2]),
                             InputPinId(ids[4]), created_from_snap)>>
                 ELSE <<>>]

links_created(self) ==
    Query("links_created", self, links_created_ret(sub), Len(stack))

\* ScopeNone::get_dropped_link(&self)
get_dropped_link_ret(state) ==
    LET id == OutParam(<<-1>>, state.one.out)[1]
    IN  [ok |-> TRUE, prims |-> <<"IsLinkDestroyed">>,
         val |-> IF state.one.found THEN <<LinkId(id)>> ELSE <<>>]

\* get_hovered_pin telling presence by the sentinel instead of the flag
get_hovered_pin_by_sentinel(state) ==
    LET id == OutParam(<<-1>>, state.one.out)[1]
    IN  [ok |-> TRUE, prims |-> <<"IsPinHovered">>,
         val |-> IF id # -1 THEN <<PinId(id)>> ELSE <<>>]

\* ScopeNone::get_hovered_pin(&self)
get_hovered_pin_ret(state) ==
    LET id == OutParam(<<-1>>, state.one.out)[1]
        ok == state.one.found
    IN  [ok |-> TRUE, prims |-> <<"IsPinHovered">>,
         val |-> IF ok THEN <<PinId(id)>> ELSE <<>>]

\* ScopeNone::get_hovered_link(&self)
get_hovered_link_ret(state) ==
    LET id == OutParam(<<-1>>, state.one.out)[1]
        ok == state.one.found
    IN  [ok |-> TRUE, prims |-> <<"IsLinkHovered">>,
         val |-> IF ok THEN <<LinkId(id)>> ELSE <<>>]

\* ScopeNone::get_active_attribute(&self)
get_active_attribute_ret(state) ==
    LET id == OutParam(<<-1>>, state.one.out)[1]
        ok == state.one.found
    IN  [ok |-> TRUE, prims |-> <<"IsAnyAttributeActive">>,
         val |-> IF ok THEN <<AttributeId(id)>> ELSE <<>>]

\* ScopeNone::from_where_link_started(&self)
from_where_link_started_ret(state) ==
    LET id == OutParam(<<-1>>, state.one.out)[1]
        ok == state.one.found
    IN  [ok |-> TRUE, prims |-> <<"IsLinkStarted">>,
         val |-> IF ok THEN <<PinId(id)>> ELSE <<>>]

\* ScopeNone::from_where_link_dropped(&self, including_detached_links)
from_where_link_dropped_ret(state, including_detached_links) ==
    LET id == OutParam(<<-1>>, state.one.out)[1]
        ok == state.one.found
    IN  [ok |-> TRUE, prims |-> <<"IsLinkDropped">>,
         val |-> IF ok THEN <<PinId(id)>> ELSE <<>>]

\* ScopeEditor::get_active_attribute(&self)
editor_get_active_attribute_ret(state) ==
    LET id == OutParam(<<-1>>, state.one.out)[1]
        ok == state.one.found
    IN  [ok |-> TRUE, prims |-> <<"IsAnyAttributeActive">>,
         val |-> IF ok THEN <<AttributeId(id)>> ELSE <<>>]

get_dropped_link(self) ==
    Query("get_dropped_link", self, get_dropped_link_ret(sub), Len(stack))

get_hovered_pin(self) ==
    Query("get_hovered_pin", self, get_hovered_pin_ret(sub), Len(stack))

\* get_hovered_link clearing the hover state it has read
get_hovered_link_consuming(self) ==
    /\ self \in Usable("None")
    /\ sub' = [sub EXCEPT !.one = NoAnswer]
    /\ last' = [NoLast EXCEPT !.op = "get_hovered_link", !.ev = "call", !.tok = self,
                              !.prims = get_hovered_link_ret(sub).prims,
                              !.val = get_hovered_link_ret(sub).val]
    /\ UNCHANGED <<stack, open, cur, saved, sel>>

get_hovered_link(self) ==
    Query("get_hovered_link", self, get_hovered_link_ret(sub), Len(stack))

get_active_attribute(self) ==
    Query("get_active_attribute", self, get_active_attribute_ret(sub), Len(stack))

from_where_link_started(self) ==
    Query("from_where_link_started", self, from_where_link_started_ret(sub), Len(stack))

from_where_link_dropped(self, including_detached_links) ==
    QueryWith("from_where_link_dropped", self, <<including_detached_links>>,
              from_where_link_dropped_ret(sub, including_detached_links), Len(stack))

editor_get_active_attribute(self) ==
    /\ self \in Usable("Editor")
    /\ last' = [NoLast EXCEPT !.op = "editor_get_active_attribute", !.ev = "call",
                              !.tok = self,
                              !.prims = editor_get_active_attribute_ret(sub).prims,
                              !.val = editor_get_active_attribute_ret(sub).val]
    /\ UNCHANGED <<stack, open, cur, saved, sel, sub>>

\* ScopeNone::is_hovered(&self, id): whether the hover primitive of the
\* element kind of id finds that element under the mouse
is_hovered_ret(state, id) ==
    [ok |-> TRUE, prims |-> <<"Hoverable::is_hovered">>,
     val |-> <<state.one.found /\ OutParam(<<-1>>, state.one.out)[1] = Into(id)>>]

\* ScopeNone::link_started_at(&self, id): whether a link was started at pin id
link_started_at_ret(state, id) ==
    [ok |-> TRUE, prims |-> <<"PinId::is_start_of_link">>,
     val |-> <<state.one.found /\ OutParam(<<-1>>, state.one.out)[1] = Into(id)>>]

\* ScopeNone::link_dropped_from(&self, id, including_detached_links): whether
\* a link was dropped that started at pin id
link_dropped_from_ret(state, id, including_detached_links) ==
    [ok |-> TRUE, prims |-> <<"PinId::dropped_link">>,
     val |-> <<state.one.found /\ OutParam(<<-1>>, state.one.out)[1] = Into(id)>>]

is_hovered(self, id) ==
    QueryWith("is_hovered", self, <<id>>, is_hovered_ret(sub, id), Len(stack))

link_started_at(self, id) ==
    QueryWith("link_started_at", self, <<id>>, link_started_at_ret(sub, PinId(Into(id))),
              Len(stack))

link_dropped_from(self, id, including_detached_links) ==
    QueryWith("link_dropped_from", self, <<id, including_detached_links>>,
              link_dropped_from_ret(sub, PinId(Into(id)), including_detached_links),
              Len(stack))

\* what a query primitive may write through an out-pointer: the id of a
\* declared element or -1
OutValues == {-1} \cup PinIds

\* every answer of a query primitive with one out-value
Answers == [found : BOOLEAN, out : {<<>>} \cup {<<v>> : v \in OutValues}]

\* every answer of IsLinkCreated
LinkAnswers ==
    [found : BOOLEAN, out : {<<>>} \cup [1..4 -> {-1, 1}], snap : BOOLEAN]

\* Between two frames the subsystem settles what its query primitives answer.
subsystem_reports(answer) ==
    /\ stack = <<>>
    /\ sub' = [sub EXCEPT !.one = answer]
    /\ last' = [NoLast EXCEPT !.op = "frame"]
    /\ UNCHANGED <<stack, open, cur, saved, sel>>

subsystem_reports_link(answer) ==
    /\ stack = <<>>
    /\ sub' = [sub EXCEPT !.created = answer]
    /\ last' = [NoLast EXCEPT !.op = "frame"]
    /\ UNCHANGED <<stack, open, cur, saved, sel>>

\* Between two frames the user completes a drag from the output pin p1 to the
\* input pin p2, both declared inside a node: the subsystem reports the link
\* as created, with the nodes that own the two pins.
user_drags(p1, p2, snap) ==
    /\ stack = <<>>
    /\ sub.pins[p1].dir = "out" /\ sub.pins[p1].node # 0
    /\ sub.pins[p2].dir = "in" /\ sub.pins[p2].node # 0
    /\ sub' = [sub EXCEPT !.created =
                   [found |-> TRUE,
                    out |-> <<sub.pins[p1].node, p1, sub.pins[p2].node, p2>>,
                    snap |-> snap]]
    /\ last' = [NoLast EXCEPT !.op = "user_drags", !.given = <<p1, p2, snap>>]
    /\ UNCHANGED <<stack, open, cur, saved, sel>>

NextQuery ==
    \/ \E s \in Selections : subsystem_selects(s)
    \/ \E t \in Usable("None"), d \in 0..MaxOpen : num_selected_nodes(t, d)
    \/ \E t \in Usable("None"), d \in 0..MaxOpen : num_selected_links(t, d)
    \/ \E t \in Usable("None"), d \in 0..MaxOpen : selected_nodes(t, d)
    \/ \E t \in Usable("None"), d \in 0..MaxOpen : selected_links(t, d)

SpecQuery == Init /\ [][NextQuery]_vars


\* the tokens of a scope that an entry function created
Created(scope) == Usable(scope) \ {StructLiteral(scope)}

\* Frames of programs that take every token from an entry function: they
\* declare nodes, pins and links, the user drags between the pins, and the
\* program asks for the link created.
NextFrame ==
    \/ \E ctx \in OneContext : editor_begin(ctx)
    \/ editor_end
    \/ \E t \in Created("Editor"), n \in NodeIds : node_begin(t, NodeId(n))
    \/ node_end
    \/ \E t \in Created("Node"), p \in PinIds, shape \in OneShape :
          add_input_begin(t, InputPinId(p), shape)
    \/ add_input_end
    \/ \E t \in Created("Node"), p \in PinIds, shape \in OneShape :
          add_output_begin(t, OutputPinId(p), shape)
    \/ add_output_end
    \/ \E t \in Created("Editor"), l \in LinkIds, a \in PinIds, b \in PinIds :
          add_link(t, LinkId(l), InputPinId(a), OutputPinId(b))
    \/ \E p1 \in PinIds, p2 \in PinIds, snap \in BOOLEAN : user_drags(p1, p2, snap)
    \/ \E t \in Created("None") : links_created(t)

SpecFrame == Init /\ [][NextFrame]_vars

\* The get-style queries against every answer of the subsystem.
NextGet ==
    \/ \E a \in Answers : subsystem_reports(a)
    \/ \E a \in LinkAnswers : subsystem_reports_link(a)
    \/ \E t \in Usable("None") : links_created(t)
    \/ \E t \in Usable("None") : get_dropped_link(t)
    \/ \E t \in Usable("None") : get_hovered_pin(t)
    \/ \E t \in Usable("None") : get_hovered_link(t)
    \/ \E t \in Usable("None") : get_active_attribute(t)
    \/ \E t \in Usable("None") : from_where_link_started(t)
    \/ \E t \in Usable("None"), b \in BOOLEAN : from_where_link_dropped(t, b)
    \/ \E t \in Usable("Editor") : editor_get_active_attribute(t)

SpecGet == Init /\ [][NextGet]_vars

\* the answers in which the flag is set exactly when an id was written
Found == {a \in Answers : a.found = (a.out # <<>>) /\ -1 \notin {a.out[i] : i \in DOMAIN a.out}}

\* the same for IsLinkCreated
FoundLinks ==
    {a \in LinkAnswers : /\ a.found = (a.out # <<>>)
                         /\ -1 \notin {a.out[i] : i \in DOMAIN a.out}
                         /\ a.snap => a.found}

\* Every operation of ScopeNone, before, between, after and (with a token
\* kept from an earlier frame, or built on the spot) inside editor(...) calls,
\* with the subsystem settling selection, hover and link state between frames.
NextNone ==
    \/ \E ctx \in OneContext : editor_begin(ctx)
    \/ editor_end
    \/ \E a \in Found : subsystem_reports(a)
    \/ \E a \in FoundLinks : subsystem_reports_link(a)
    \/ \E p \in Perms(NodeIds) : subsystem_selects([nodes |-> p, links |-> p])
    \/ \E t \in Usable("None"), n \in NodeIds : is_hovered(t, NodeId(n))
    \/ \E t \in Usable("None"), p \in PinIds : link_started_at(t, OutputPinId(p))
    \/ \E t \in Usable("None"), p \in PinIds, b \in BOOLEAN :
          link_dropped_from(t, OutputPinId(p), b)
    \/ \E t \in Usable("None"), d \in 0..MaxOpen : num_selected_nodes(t, d)
    \/ \E t \in Usable("None"), d \in 0..MaxOpen : num_selected_links(t, d)
    \/ \E t \in Usable("None"), d \in 0..MaxOpen : selected_nodes(t, d)
    \/ \E t \in Usable("None"), d \in 0..MaxOpen : selected_links(t, d)
    \/ \E t \in Usable("None") : links_created(t)
    \/ \E t \in Usable("None") : get_dropped_link(t)
    \/ \E t \in Usable("None") : get_hovered_pin(t)
    \/ \E t \in Usable("None") : get_hovered_link(t)
    \/ \E t \in Usable("None") : get_active_attribute(t)
    \/ \E t \in Usable("None") : from_where_link_started(t)
    \/ \E t \in Usable("None"), b \in BOOLEAN : from_where_link_dropped(t, b)

SpecNone == Init /\ [][NextNone]_vars

----------------------------------------------------------------------------
\* Properties.

\* C1: the log of begin/end primitive calls is well nested: every end
\* primitive closes a region (the most recently opened one still open) of the
\* same kind as the function that calls it.
C1_WellNested ==
    last.ev = "end" => last.closed = last.kind

\* C2: when a block fails, every region-entry function the failure crosses
\* has called its end primitive: once the failure has left every in-flight
\* call, no region remains open in the subsystem.
C2_ClosedAfterFailure ==
    (last.ev = "panic" /\ stack = <<>>) => open = <<>>

\* C3: every editor(ctx, block) call whose block returns hands back a None
\* token, and at that moment its EndNodeEditor has closed the editor region
\* that this very call opened.
C3_EditorReturnsClosed ==
    (last.op = "editor" /\ last.ev = "end") =>
        /\ last.ret = ScopeNone(-1)
        /\ last.prims = <<"EndNodeEditor">>
        /\ last.closed = "editor"
        /\ last.own

\* C4: every Editor token and every Node token the caller holds or calls an
\* operation on was created by editor(...) resp. ScopeEditor::node(...).
C4_TokensFromEntryFunctions ==
    \A t \in saved \cup {last.tok} :
        t.scope \in {"Editor", "Node"} => t.from # 0

\* C5: no token outlives its region: an operation called on a token that a
\* region-entry function handed to a block runs while the region of that
\* token is still open.
C5_TokenUsedInsideItsRegion ==
    (last.ev \in {"begin", "call"} /\ last.tok.scope \in {"Editor", "Node"}
                                   /\ last.tok.from # 0) =>
        /\ last.tok.from \in 1..Len(open)
        /\ BlockToken(open[last.tok.from], last.tok.from) = last.tok

\* C6: at most one region of each kind is open at any time.
C6_OneRegionPerKind ==
    \A k \in Kinds : Cardinality({i \in 1..Len(open) : open[i] = k}) <= 1

\* C7: at most one editor(...) call is in flight at any time.
C7_NoEditorReentry ==
    Cardinality({i \in 1..Len(stack) : stack[i].fn = "editor"}) <= 1

\* C8: while an editor(ctx, block) call is in flight, the current-context
\* slot holds its ctx.
C8_ContextStaysCurrent ==
    \A i \in 1..Len(stack) : stack[i].fn = "editor" => cur = stack[i].ctx

\* C9: num_selected_nodes() and num_selected_links() return the number of
\* selected nodes resp. links, for every number n >= 0.
C9_CountReturned ==
    /\ last.op = "num_selected_nodes" =>
           last.ev = "call" /\ last.val = <<Len(sel.nodes)>>
    /\ last.op = "num_selected_links" =>
           last.ev = "call" /\ last.val = <<Len(sel.links)>>

\* what a getter did, for a selection s and the names of its two primitives:
\* with n > 0 elements selected it returned the n selected ids, filled in by
\* the retrieval primitive; with none selected it panicked, returned nothing
\* and did not call the retrieval primitive
Retrieved(s, numPrim, getPrim) ==
    IF Len(s) > 0
    THEN /\ last.ev = "call"
         /\ last.prims = <<numPrim, getPrim>>
         /\ Len(last.val) = Len(s)
         /\ last.val = s
    ELSE /\ last.ev = "panic"
         /\ last.prims = <<numPrim>>
         /\ last.val = <<>>

\* C10: with n > 0 nodes (links) selected, selected_nodes() (selected_links())
\* returns exactly the n selected ids written by the retrieval primitive; with
\* none selected it fails, returns no sequence and does not call the
\* retrieval primitive.
C10_SelectedRetrieval ==
    /\ last.op = "selected_nodes" =>
           Retrieved(sel.nodes, "NumSelectedNodes", "GetSelectedNodes")
    /\ last.op = "selected_links" =>
           Retrieved(sel.links, "NumSelectedLinks", "GetSelectedLinks")

\* C10 witness: selected_nodes() has returned with every available node
\* selected (at least two)
C10_Witness ==
    /\ last.op = "selected_nodes"
    /\ last.ev = "call"
    /\ Len(sel.nodes) = MaxSelected
    /\ Len(last.val) >= 2

\* C13: when the subsystem reports a drag from the output pin P1, declared
\* in node N1, to the input pin P2, declared in node N2, the next
\* links_created() returns a Link with start_node = N1, end_node = N2,
\* start_pin = P1, end_pin = P2 and the reported snap flag; when no link was
\* created it returns absent.
C13_DragReported ==
    [][last'.op = "links_created" =>
          /\ last.op = "user_drags" =>
                 last'.val = <<Link(NodeId(sub.pins[last.given[1]].node),
                                    NodeId(sub.pins[last.given[2]].node),
                                    OutputPinId(last.given[1]),
                                    InputPinId(last.given[2]),
                                    last.given[3])>>
          /\ ~sub.created.found => last'.val = <<>>]_vars

\* C13 witness: links_created() has returned a link between two different
\* pins of two different nodes
C13_Witness ==
    /\ last.op = "links_created"
    /\ last.val # <<>>
    /\ last.val[1].start_node # last.val[1].end_node
    /\ last.val[1].start_pin.id # last.val[1].end_pin.id
    /\ sub.pins[last.val[1].start_pin.id] = [node |-> last.val[1].start_node.id, dir |-> "out"]
    /\ sub.pins[last.val[1].end_pin.id] = [node |-> last.val[1].end_node.id, dir |-> "in"]

\* C14: add_link(L, a, b) calls the link declaration primitive with (L, a, b)
\* and nothing else, and leaves the frame state, the link-created state
\* included, unchanged; a link is reported as created only through a user
\* drag, and with none reported links_created() returns absent.
C14_AddLinkNotCreated ==
    [][/\ last'.op = "add_link" =>
              /\ last'.prims = <<"Link">>
              /\ last'.args = <<last'.given[1].id, last'.given[2].id, last'.given[3].id>>
              /\ sub' = sub
              /\ open' = open
       /\ (sub'.created.found /\ sub'.created # sub.created) => last'.op = "user_drags"
       /\ (last'.op = "links_created" /\ ~sub.created.found) => last'.val = <<>>]_vars

\* C14 witness: add_link(L, a, b) has been called inside an editor region,
\* with a declared as an input pin and b as an output pin of a node, and no
\* link is reported as created
C14_Witness ==
    /\ last.op = "add_link"
    /\ open # <<>> /\ Top(open) = "editor"
    /\ sub.pins[last.given[2].id].dir = "in" /\ sub.pins[last.given[2].id].node # 0
    /\ sub.pins[last.given[3].id].dir = "out" /\ sub.pins[last.given[3].id].node # 0
    /\ ~sub.created.found

\* the type of id each get-style query with one out-value wraps
GetStyle ==
    [get_dropped_link |-> "LinkId", get_hovered_pin |-> "PinId",
     get_hovered_link |-> "LinkId", get_active_attribute |-> "AttributeId",
     from_where_link_started |-> "PinId", from_where_link_dropped |-> "PinId",
     editor_get_active_attribute |-> "AttributeId"]

\* C11: the result of every get-style query is present if and only if its
\* primitive returned found = true; when present it wraps exactly the values
\* the out-parameters hold after the call, each in the id type of its field;
\* with found = false it is absent.
C11_PresentIffFound ==
    /\ last.op \in DOMAIN GetStyle =>
           /\ last.val # <<>> <=> sub.one.found
           /\ sub.one.found =>
                  last.val = <<[ty |-> GetStyle[last.op],
                                id |-> IF sub.one.out = <<>> THEN -1
                                       ELSE sub.one.out[1]]>>
    /\ last.op = "links_created" =>
           /\ last.val # <<>> <=> sub.created.found
           /\ (sub.created.found /\ sub.created.out # <<>>) =>
                  last.val = <<[start_node |-> [ty |-> "NodeId", id |-> sub.created.out[1]],
                                end_node |-> [ty |-> "NodeId", id |-> sub.created.out[3]],
                                start_pin |-> [ty |-> "OutputPinId", id |-> sub.created.out[2]],
                                end_pin |-> [ty |-> "InputPinId", id |-> sub.created.out[4]],
                                craeated_from_snap |-> sub.created.snap]>>

\* C11 witness: get_hovered_pin() has returned the id the primitive wrote
C11_Witness ==
    /\ last.op = "get_hovered_pin"
    /\ sub.one.found
    /\ sub.one.out # <<>>
    /\ last.val = <<PinId(sub.one.out[1])>>
    /\ last.val[1].id > 0

\* the identifiers of a result of a get-style query
IdsOf(val) ==
    IF val = <<>> THEN {}
    ELSE IF "id" \in DOMAIN val[1] THEN {val[1].id}
    ELSE {val[1].start_node.id, val[1].end_node.id,
          val[1].start_pin.id, val[1].end_pin.id}

\* C12: whatever the primitive answers, the value a get-style query returns
\* contains no identifier equal to -1.
C12_NoSentinelLeak ==
    last.op \in DOMAIN GetStyle \cup {"links_created"} => -1 \notin IdsOf(last.val)

\* the operations of ScopeNone
NoneOps ==
    {"is_hovered", "link_started_at", "link_dropped_from", "num_selected_nodes",
     "num_selected_links", "selected_nodes", "selected_links", "links_created",
     "get_dropped_link", "get_hovered_pin", "get_hovered_link",
     "get_active_attribute", "from_where_link_started", "from_where_link_dropped"}

\* C15: no operation of ScopeNone is executed while an editor, node or
\* sub-region is open.
C15_NoneOutsideRegions ==
    (last.op \in NoneOps /\ last.ev \in {"call", "panic"}) => open = <<>>

\* the primitives that begin or end a region or declare a link
RegionPrims == {BeginPrim(k) : k \in Kinds} \cup {EndPrim(k) : k \in Kinds} \cup {"Link"}

\* C17: an operation of ScopeNone that returns normally calls no begin / end
\* primitive and no link declaration, leaves the open regions, the calls in
\* flight, the current-context slot, the selection and the frame state
\* unchanged, and returns what the same operation, with the same arguments,
\* returned just before it.
C17_ReadOnlyQueries ==
    [][(last'.op \in NoneOps /\ last'.ev = "call") =>
          /\ \A i \in 1..Len(last'.prims) : last'.prims[i] \notin RegionPrims
          /\ open' = open /\ stack' = stack /\ cur' = cur
          /\ sel' = sel /\ sub' = sub
          /\ (last.op = last'.op /\ last.ev = "call" /\ last.given = last'.given) =>
                 last'.val = last.val]_vars

\* C17 witness: get_hovered_link(), called on the token an editor(...) call
\* returned, has returned the hovered link a second time
C17_Witness ==
    /\ last.op = "get_hovered_link"
    /\ last.tok = ScopeNone(-1)
    /\ last.val # <<>>
    /\ sub.one.found

\* the arguments a begin primitive of the given kind is to receive for the
\* arguments the caller gave: each id as its integer, the shape as its
\* discriminant
Passed(kind, given) ==
    CASE kind \in {"node", "attribute"} -> <<given[1].id>>
      [] kind \in {"input", "output"} ->
            <<given[1].id, IF given[2] = "Circle" THEN 0 ELSE 1>>
      [] OTHER -> <<>>

\* C16: every region-entry operation calls the begin primitive of its kind
\* with the caller's id and shape unchanged, then invokes its block, then
\* calls the end primitive of the same kind; a call that has invoked its
\* block is left only through that end primitive.
C16_BeginBlockEnd ==
    [][/\ Len(stack') > Len(stack) =>
              /\ last'.ev = "begin"
              /\ last'.prims = <<BeginPrim(last'.kind)>>
              /\ last'.args = Passed(last'.kind, last'.given)
              /\ stack' = Append(stack, stack'[Len(stack')])
              /\ stack'[Len(stack')].fn = last'.kind
       /\ Len(stack') < Len(stack) =>
              /\ last'.ev = "end"
              /\ last'.prims = <<EndPrim(Top(stack).fn)>>
              /\ stack' = Pop(stack)
       /\ (Len(stack') = Len(stack) /\ last' # last) =>
              last'.ev \notin {"begin", "end"}]_vars

\* C18: when a region-entry call whose block returned normally returns, the
\* open regions are exactly those that were open when the call was made.
C18_StackRestored ==
    [][(Len(stack') < Len(stack) /\ last'.ev = "end") =>
          open' = SubSeq(open, 1, Top(stack).pos - 1)]_vars

\* C19: whenever selected_nodes() / selected_links() calls the retrieval
\* primitive, the call comes right after the count primitive, and the buffer
\* it passes is as long as the count, which is at least 1.
C19_BufferSized ==
    /\ (\E i \in 1..Len(last.prims) : last.prims[i] = "GetSelectedNodes") =>
           /\ last.prims = <<"NumSelectedNodes", "GetSelectedNodes">>
           /\ last.buf = Len(sel.nodes)
           /\ last.buf >= 1
    /\ (\E i \in 1..Len(last.prims) : last.prims[i] = "GetSelectedLinks") =>
           /\ last.prims = <<"NumSelectedLinks", "GetSelectedLinks">>
           /\ last.buf = Len(sel.links)
           /\ last.buf >= 1

\* C19 witness: selected_links() has retrieved every available link (at
\* least two) into a buffer of that length
C19_Witness ==
    /\ last.op = "selected_links"
    /\ last.ev = "call"
    /\ last.buf = MaxSelected
    /\ last.buf >= 2
    /\ Len(last.val) = last.buf

====
